---------------------------- MODULE Spec2Model ----------------------------
(***************************************************************************)
(* A model of milterfrom (src/milterfrom.c): a milter that rejects mail of *)
(* authenticated senders whose From: header address differs from the       *)
(* envelope sender.                                                        *)
(*                                                                         *)
(* C strings are sequences of one-character strings; the terminating NUL   *)
(* is implicit (CharAt past the end yields NUL).  Pointers into a string   *)
(* are 0-based offsets, as in the C code.  Bit masks are sets of flag      *)
(* names: & is \cap, | is \cup, 0 is {}.                                   *)
(***************************************************************************)
EXTENDS Integers, Sequences, FiniteSets, TLC

VARIABLES
    mta_caps,   \* static unsigned long mta_caps (process-wide)
    heap,       \* the malloc heap: address -> block
    ctx_priv,   \* per context: the private-data slot (smfi_getpriv/smfi_setpriv)
    phase,      \* per context: the position of the milter runtime in the protocol
    running,    \* FALSE once the process has crashed
    fault,      \* the first undefined behaviour that happened, or "none"
    ret,        \* return value of the last handler call
    reply,      \* reply set through smfi_setreply by the last handler call
    pf,         \* *pf0 .. *pf3 as written by the last mlfi_negotiate
    call,       \* the last handler call: its name, context and a digest of its inputs
    seen,       \* per context: digest of the events of the message in flight
    tempfailed, \* per context: an envelope-sender event of this connection returned TEMPFAIL
    offered,    \* per context: the step mask f1 the MTA offered in this connection's negotiation
    fn_in,      \* inputs of the pure-function harness
    fn_out      \* result of the pure-function harness

vars == <<mta_caps, heap, ctx_priv, phase, running, fault, ret, reply, pf,
          call, seen, tempfailed, offered, fn_in, fn_out>>

(***************************************************************************)
(* Bounds.                                                                 *)
(***************************************************************************)
\* longest string given to parse_address and to the address comparison
MaxLen == 3
\* number of blocks the heap can hold before malloc must fail
HeapSize == 4

(***************************************************************************)
(* Characters and C strings.                                               *)
(***************************************************************************)
Alphabet == {"a", "A", "<", ">"}

Strings == UNION {[1..n -> Alphabet] : n \in 0..MaxLen}

NUL == "NUL"

NULL == 0

UpperCase == <<"A","B","C","D","E","F","G","H","I","J","K","L","M",
               "N","O","P","Q","R","S","T","U","V","W","X","Y","Z">>

LowerCase == <<"a","b","c","d","e","f","g","h","i","j","k","l","m",
               "n","o","p","q","r","s","t","u","v","w","x","y","z">>

LowerOf == [c \in {UpperCase[i] : i \in DOMAIN UpperCase} |->
               LowerCase[CHOOSE i \in DOMAIN UpperCase : UpperCase[i] = c]]

\* tolower() in the C locale: only A-Z change
tolower(c) == IF c \in DOMAIN LowerOf THEN LowerOf[c] ELSE c

strlen(s) == Len(s)

\* s[i] for a 0-based index; the byte after the last character is the NUL
CharAt(s, i) == IF i < Len(s) THEN s[i + 1] ELSE NUL

\* strncasecmp(s1 + off1, s2 + off2, n): 0 when equal, 1 otherwise
RECURSIVE strncasecmp(_, _, _, _, _)
strncasecmp(s1, off1, s2, off2, n) ==
    IF n = 0 THEN 0
    ELSE LET c1 == tolower(CharAt(s1, off1))
             c2 == tolower(CharAt(s2, off2))
         IN  IF c1 # c2 THEN 1
             ELSE IF c1 = NUL THEN 0
             ELSE strncasecmp(s1, off1 + 1, s2, off2 + 1, n - 1)

\* strcasecmp(s1, s2): 0 when equal, 1 otherwise
RECURSIVE strcasecmp_from(_, _, _)
strcasecmp_from(s1, s2, i) ==
    LET c1 == tolower(CharAt(s1, i))
        c2 == tolower(CharAt(s2, i))
    IN  IF c1 # c2 THEN 1
        ELSE IF c1 = NUL THEN 0
        ELSE strcasecmp_from(s1, s2, i + 1)

strcasecmp(s1, s2) == strcasecmp_from(s1, s2, 0)

\* strndup(s + off, n): at most n bytes, stopping at the NUL
strndup(s, off, n) ==
    LET avail == IF off < Len(s) THEN Len(s) - off ELSE 0
        k     == IF n < avail THEN n ELSE avail
    IN  [i \in 1..k |-> s[off + i]]

(***************************************************************************)
(* parse_address: the loop of lines 65-68, then the choice of lines 70-76. *)
(* The result is the returned pointer (an offset into address) and *len.   *)
(***************************************************************************)
RECURSIVE ScanBrackets(_, _, _, _)
ScanBrackets(address, i, pos_open, pos_close) ==
    IF ~(i < strlen(address))
    THEN [pos_open |-> pos_open, pos_close |-> pos_close]
    ELSE IF CharAt(address, i) = "<"
         THEN ScanBrackets(address, i + 1, i, pos_close)
         ELSE IF CharAt(address, i) = ">"
              THEN ScanBrackets(address, i + 1, pos_open, i)
              ELSE ScanBrackets(address, i + 1, pos_open, pos_close)

parse_address_NoOrderCheck(address) ==
    LET inlen == strlen(address)
        p     == ScanBrackets(address, 0, -1, -1)
    IN  IF p.pos_open # -1 /\ p.pos_close # -1
        THEN [off |-> p.pos_open + 1, len |-> p.pos_close - p.pos_open - 1]
        ELSE [off |-> 0, len |-> inlen]

parse_address(address) ==
    LET inlen == strlen(address)
        p     == ScanBrackets(address, 0, -1, -1)
    IN  IF p.pos_open # -1 /\ p.pos_close # -1 /\ p.pos_open < p.pos_close
        THEN [off |-> p.pos_open + 1, len |-> p.pos_close - p.pos_open - 1]
        ELSE [off |-> 0, len |-> inlen]


(***************************************************************************)
(* The heap.  A block is free, a struct mlfiPriv, or a string.  malloc     *)
(* hands out the lowest free address (addresses are interchangeable) and   *)
(* fails when the caller's allocation is made to fail or no block is left. *)
(***************************************************************************)
Addr == 1..HeapSize

FreeBlock == [kind |-> "free"]

\* a struct mlfiPriv after memset(priv, '\0', sizeof *priv)
ZeroPriv == [kind |-> "priv", is_auth |-> 0, env_from |-> NULL,
             env_from_len |-> 0, reject |-> 0]

StrBlock(chars) == [kind |-> "str", chars |-> chars]

FreeAddrs(h) == {a \in Addr : h[a].kind = "free"}

\* the address malloc returns, NULL on failure
malloc(h, ok) ==
    IF ok /\ FreeAddrs(h) # {}
    THEN CHOOSE a \in FreeAddrs(h) : \A b \in FreeAddrs(h) : a <= b
    ELSE NULL

\* free(p): a no-op on NULL; freeing a block that is not live is a double free
free(h, p) == IF p = NULL THEN h ELSE [h EXCEPT ![p] = FreeBlock]

BadFree(h, p) == p # NULL /\ h[p].kind = "free"

(***************************************************************************)
(* Milter constants (libmilter/mfapi.h, mfdef.h) by name.                  *)
(***************************************************************************)
SMFIS_CONTINUE == "SMFIS_CONTINUE"
SMFIS_REJECT   == "SMFIS_REJECT"
SMFIS_TEMPFAIL == "SMFIS_TEMPFAIL"
SMFIS_NOREPLY  == "SMFIS_NOREPLY"

SMFIP_NOCONNECT == "SMFIP_NOCONNECT"
SMFIP_NOHELO    == "SMFIP_NOHELO"
SMFIP_NORCPT    == "SMFIP_NORCPT"
SMFIP_NR_HDR    == "SMFIP_NR_HDR"
SMFIP_SKIP      == "SMFIP_SKIP"

\* protocol-step masks an MTA may offer as f1, and action masks as f0
OfferedSteps == SUBSET {SMFIP_NR_HDR, SMFIP_SKIP}

OfferedActions == SUBSET {"SMFIF_ADDHDRS"}

\* values of smfi_getsymval(ctx, "{auth_type}"): NULL when not authenticated
AuthTypes == {[null |-> TRUE], [null |-> FALSE, str |-> "PLAIN"]}

NoReply == <<>>

RejectReply == <<"550", "5.7.1",
                 "Rejected due to unmatching envelope and header sender.">>

FromLiteral == <<"f", "r", "o", "m">>

\* header field names delivered by the MTA
HeaderNames == { <<"f","r","o","m">>, <<"F","r","o","m">>, <<"F","R","O","M">>,
                 <<"S","e","n","d","e","r">>, <<"X","-","F","r","o","m">> }

\* envelope-sender and header values delivered by the MTA: bare addresses,
\* case variants, a longer address with a shorter one as prefix, wrapped and
\* display-name forms, the empty value and a stray bracket
FieldValues == { <<>>, <<"a">>, <<"A">>, <<"b">>, <<"a","b">>,
                 <<"<","a",">">>, <<"<","b",">">>, <<"x"," ","<","A",">">>,
                 <<"<",">">>, <<"<","a",">","<">> }

\* the contexts (connections) of the milter runtime
Conns == {"c1", "c2"}

\* the connection of a single-connection run
Conn1 == {"c1"}

(***************************************************************************)
(* mlfi_cleanup, as a function of the heap and the private slot.           *)
(***************************************************************************)
mlfi_cleanup_NoReset(h, priv) ==
    IF priv = NULL
    THEN [heap |-> h, priv |-> NULL, fault |-> "none"]
    ELSE IF h[priv].kind # "priv"
    THEN [heap |-> h, priv |-> priv, fault |-> "use_after_free"]
    ELSE LET s  == h[priv].env_from
             h1 == free(h, s)
             h2 == free(h1, priv)
         IN  [heap |-> h2, priv |-> priv,
              fault |-> IF BadFree(h, s) THEN "double_free" ELSE "none"]

mlfi_cleanup_LeakStr(h, priv) ==
    IF priv = NULL
    THEN [heap |-> h, priv |-> NULL, fault |-> "none"]
    ELSE IF h[priv].kind # "priv"
    THEN [heap |-> h, priv |-> priv, fault |-> "use_after_free"]
    ELSE [heap |-> free(h, priv), priv |-> NULL, fault |-> "none"]

mlfi_cleanup(h, priv) ==
    IF priv = NULL
    THEN [heap |-> h, priv |-> NULL, fault |-> "none"]
    ELSE IF h[priv].kind # "priv"
    \* priv dangles: priv->env_from reads freed memory
    THEN [heap |-> h, priv |-> priv, fault |-> "use_after_free"]
    ELSE LET s  == h[priv].env_from
             h1 == free(h, s)
             h2 == free(h1, priv)
         IN  [heap |-> h2, priv |-> NULL,
              fault |-> IF BadFree(h, s) THEN "double_free" ELSE "none"]

(***************************************************************************)
(* mlfi_envfrom, as a function of the heap, the slot and its inputs:       *)
(* the heap and slot it leaves and the value it returns.                   *)
(***************************************************************************)
mlfi_envfrom_AttachEarly(h, slot, envfrom, auth_type, malloc_ok, strndup_ok) ==
    LET priv == malloc(h, malloc_ok)
    IN  IF priv = NULL
        THEN [heap |-> h, priv |-> slot, ret |-> SMFIS_TEMPFAIL]
        ELSE LET h1     == [h EXCEPT ![priv] = ZeroPriv]
                 pa     == parse_address(envfrom)
                 fromcp == malloc(h1, strndup_ok)
             IN  IF fromcp = NULL
                 THEN [heap |-> h1, priv |-> priv, ret |-> SMFIS_TEMPFAIL]
                 ELSE [heap |-> [h1 EXCEPT
                                   ![fromcp] = StrBlock(strndup(envfrom, pa.off, pa.len)),
                                   ![priv] = [kind |-> "priv",
                                              is_auth |-> IF ~auth_type.null THEN 1 ELSE 0,
                                              env_from |-> fromcp,
                                              env_from_len |-> pa.len,
                                              reject |-> 0]],
                       priv |-> priv, ret |-> SMFIS_CONTINUE]

mlfi_envfrom_CopyFromStart(h, slot, envfrom, auth_type, malloc_ok, strndup_ok) ==
    LET priv == malloc(h, malloc_ok)
    IN  IF priv = NULL
        THEN [heap |-> h, priv |-> slot, ret |-> SMFIS_TEMPFAIL]
        ELSE LET h1     == [h EXCEPT ![priv] = ZeroPriv]
                 pa     == parse_address(envfrom)
                 fromcp == malloc(h1, strndup_ok)
             IN  IF fromcp = NULL
                 THEN [heap |-> h1, priv |-> slot, ret |-> SMFIS_TEMPFAIL]
                 ELSE [heap |-> [h1 EXCEPT
                                   ![fromcp] = StrBlock(strndup(envfrom, 0, pa.len)),
                                   ![priv] = [kind |-> "priv",
                                              is_auth |-> IF ~auth_type.null THEN 1 ELSE 0,
                                              env_from |-> fromcp,
                                              env_from_len |-> pa.len,
                                              reject |-> 0]],
                       priv |-> priv, ret |-> SMFIS_CONTINUE]

mlfi_envfrom_result(h, slot, envfrom, auth_type, malloc_ok, strndup_ok) ==
    LET priv == malloc(h, malloc_ok)
    IN  IF priv = NULL
        THEN [heap |-> h, priv |-> slot, ret |-> SMFIS_TEMPFAIL]
        ELSE LET h1     == [h EXCEPT ![priv] = ZeroPriv]
                 pa     == parse_address(envfrom)
                 fromcp == malloc(h1, strndup_ok)
             IN  IF fromcp = NULL
                 \* returns without freeing priv and without smfi_setpriv
                 THEN [heap |-> h1, priv |-> slot, ret |-> SMFIS_TEMPFAIL]
                 ELSE [heap |-> [h1 EXCEPT
                                   ![fromcp] = StrBlock(strndup(envfrom, pa.off, pa.len)),
                                   ![priv] = [kind |-> "priv",
                                              is_auth |-> IF ~auth_type.null THEN 1 ELSE 0,
                                              env_from |-> fromcp,
                                              env_from_len |-> pa.len,
                                              reject |-> 0]],
                       priv |-> priv, ret |-> SMFIS_CONTINUE]

(***************************************************************************)
(* mlfi_header: the comparison of line 127, and the value of priv->reject  *)
(* after lines 121-129.  p is *priv, env the bytes priv->env_from points   *)
(* to.                                                                     *)
(***************************************************************************)
header_mismatch_LenOnly(headerv, pa, env, env_from_len) ==
    pa.len # env_from_len

header_mismatch_NoLen(headerv, pa, env, env_from_len) ==
    strncasecmp(headerv, pa.off, env, 0, pa.len) # 0

header_mismatch_Raw(headerv, pa, env, env_from_len) ==
    \/ strlen(headerv) # env_from_len
    \/ strncasecmp(headerv, 0, env, 0, strlen(headerv)) # 0

header_mismatch(headerv, pa, env, env_from_len) ==
    \/ pa.len # env_from_len
    \/ strncasecmp(headerv, pa.off, env, 0, pa.len) # 0

header_reject_NoAuth(p, env, headerf, headerv) ==
    IF p.reject = 0
    THEN IF strcasecmp(headerf, FromLiteral) = 0
         THEN IF header_mismatch(headerv, parse_address(headerv), env, p.env_from_len)
              THEN 1
              ELSE p.reject
         ELSE p.reject
    ELSE p.reject

header_reject_Overwrite(p, env, headerf, headerv) ==
    IF p.is_auth # 0
    THEN IF strcasecmp(headerf, FromLiteral) = 0
         THEN IF header_mismatch(headerv, parse_address(headerv), env, p.env_from_len)
              THEN 1
              ELSE 0
         ELSE p.reject
    ELSE p.reject

header_reject_CaseSensitive(p, env, headerf, headerv) ==
    IF p.is_auth # 0 /\ p.reject = 0
    THEN IF headerf = FromLiteral
         THEN IF header_mismatch(headerv, parse_address(headerv), env, p.env_from_len)
              THEN 1
              ELSE p.reject
         ELSE p.reject
    ELSE p.reject

header_reject_CapsDependent(p, env, headerf, headerv) ==
    IF p.is_auth # 0 /\ p.reject = 0 /\ (mta_caps \cap {SMFIP_NR_HDR}) = {}
    THEN IF strcasecmp(headerf, FromLiteral) = 0
         THEN IF header_mismatch(headerv, parse_address(headerv), env, p.env_from_len)
              THEN 1
              ELSE p.reject
         ELSE p.reject
    ELSE p.reject

header_reject(p, env, headerf, headerv) ==
    IF p.is_auth # 0 /\ p.reject = 0
    THEN IF strcasecmp(headerf, FromLiteral) = 0
         THEN IF header_mismatch(headerv, parse_address(headerv), env, p.env_from_len)
              THEN 1
              ELSE p.reject
         ELSE p.reject
    ELSE p.reject

\* the heap after lines 121-129: only priv->reject is assigned
header_heap_StoreLen(h, priv, headerf, headerv) ==
    [h EXCEPT ![priv].reject =
                  header_reject(h[priv], h[h[priv].env_from].chars, headerf, headerv),
              ![priv].env_from_len = parse_address(headerv).len]

header_heap(h, priv, headerf, headerv) ==
    [h EXCEPT ![priv].reject =
                  header_reject(h[priv], h[h[priv].env_from].chars, headerf, headerv)]

\* line 131
header_return(caps) ==
    IF (caps \cap {SMFIP_NR_HDR}) # {} THEN SMFIS_NOREPLY ELSE SMFIS_CONTINUE

(***************************************************************************)
(* mlfi_negotiate: *pf1 after lines 160-162.                               *)
(***************************************************************************)
negotiate_pf1_Always(f1) ==
    {SMFIP_NOCONNECT, SMFIP_NOHELO, SMFIP_NORCPT} \cup {SMFIP_NR_HDR}

negotiate_pf1(f1) ==
    {SMFIP_NOCONNECT, SMFIP_NOHELO, SMFIP_NORCPT}
        \cup (IF (f1 \cap {SMFIP_NR_HDR}) # {} THEN {SMFIP_NR_HDR} ELSE {})

(***************************************************************************)
(* What the events of a message amount to, stated on the inputs alone.     *)
(***************************************************************************)
Max(S) == CHOOSE x \in S : \A y \in S : y <= x

\* the address token of a field value: the text strictly between the last <
\* and the last >, when both occur in that order; the whole value otherwise
Extracted(s) ==
    LET opens  == {i \in 1..Len(s) : s[i] = "<"}
        closes == {i \in 1..Len(s) : s[i] = ">"}
    IN  IF opens # {} /\ closes # {} /\ Max(opens) < Max(closes)
        THEN SubSeq(s, Max(opens) + 1, Max(closes) - 1)
        ELSE s

\* equality of address tokens: same length, same bytes up to ASCII case
EqualTokens(a, b) ==
    /\ Len(a) = Len(b)
    /\ \A i \in 1..Len(a) : tolower(a[i]) = tolower(b[i])

IsFromName(name) == EqualTokens(name, FromLiteral)

NoSeen == [active |-> FALSE, auth |-> FALSE, env |-> <<>>,
           mismatch |-> FALSE, match |-> "none"]

\* the digest after one more header event
SeenAfter(m, headerf, headerv) ==
    IF ~m.active \/ ~IsFromName(headerf) THEN m
    ELSE IF ~EqualTokens(Extracted(headerv), m.env)
         THEN [m EXCEPT !.mismatch = TRUE]
         ELSE [m EXCEPT !.match = IF Extracted(headerv) # headerv \/ m.match = "wrapped"
                                  THEN "wrapped" ELSE "bare"]

(***************************************************************************)
(* The handlers.                                                           *)
(***************************************************************************)
NoteFault(f) == IF fault = "none" THEN f ELSE fault

mlfi_negotiate(ctx, f0, f1, f2, f3) ==
    /\ running
    /\ pf' = [pf0 |-> {}, pf1 |-> negotiate_pf1(f1), pf2 |-> {}, pf3 |-> {}]
    /\ mta_caps' = f1
    /\ ret' = SMFIS_CONTINUE
    /\ reply' = NoReply
    /\ phase' = [phase EXCEPT ![ctx] = "idle"]
    /\ call' = [op |-> "negotiate", ctx |-> ctx, f0 |-> f0, f1 |-> f1]
    /\ offered' = [offered EXCEPT ![ctx] = f1]
    /\ UNCHANGED <<heap, ctx_priv, running, fault, seen, tempfailed, fn_in, fn_out>>

mlfi_envfrom(ctx, envfrom, auth_type, malloc_ok, strndup_ok) ==
    LET r == mlfi_envfrom_result(heap, ctx_priv[ctx], envfrom, auth_type,
                                 malloc_ok, strndup_ok)
    IN  /\ running
        /\ heap' = r.heap
        /\ ctx_priv' = [ctx_priv EXCEPT ![ctx] = r.priv]
        /\ ret' = r.ret
        /\ reply' = NoReply
        /\ phase' = [phase EXCEPT ![ctx] = IF r.ret = SMFIS_CONTINUE THEN "msg" ELSE "idle"]
        /\ call' = [op |-> "envfrom", ctx |-> ctx,
                    hadpriv |-> ctx_priv[ctx] # NULL,
                    after |-> IF call.ctx = ctx THEN [op |-> call.op, ret |-> ret]
                              ELSE [op |-> "other", ret |-> "none"],
                    allocfail |-> malloc(heap, malloc_ok) = NULL
                                  \/ malloc([heap EXCEPT ![malloc(heap, malloc_ok)] = ZeroPriv],
                                            strndup_ok) = NULL]
        /\ seen' = IF r.ret = SMFIS_CONTINUE
                   THEN [seen EXCEPT ![ctx] = [active |-> TRUE, auth |-> ~auth_type.null,
                                               env |-> Extracted(envfrom),
                                               mismatch |-> FALSE, match |-> "none"]]
                   ELSE seen
        /\ tempfailed' = [tempfailed EXCEPT ![ctx] = @ \/ r.ret = SMFIS_TEMPFAIL]
        /\ UNCHANGED <<mta_caps, running, fault, pf, offered, fn_in, fn_out>>

mlfi_header(ctx, headerf, headerv) ==
    LET priv == ctx_priv[ctx]
    IN  /\ running
        /\ IF priv = NULL
           \* priv->is_auth reads through a null pointer: undefined behaviour.
           \* The process crashes, or the read yields something and the
           \* handler returns.
           THEN /\ fault' = NoteFault("null_deref")
                /\ \E survives \in BOOLEAN :
                     /\ running' = survives
                     /\ ret' = IF survives THEN header_return(mta_caps) ELSE "crash"
                /\ heap' = heap
           ELSE /\ heap' = header_heap(heap, priv, headerf, headerv)
                /\ ret' = header_return(mta_caps)
                /\ UNCHANGED <<running, fault>>
        /\ reply' = NoReply
        /\ call' = [op |-> "header", ctx |-> ctx, hadpriv |-> priv # NULL,
                    isfrom |-> IsFromName(headerf),
                    eq |-> EqualTokens(Extracted(headerv), seen[ctx].env),
                    m |-> seen[ctx]]
        /\ seen' = [seen EXCEPT ![ctx] = SeenAfter(@, headerf, headerv)]
        /\ UNCHANGED <<mta_caps, ctx_priv, phase, pf, tempfailed, offered, fn_in, fn_out>>

mlfi_eom(ctx) ==
    LET priv == ctx_priv[ctx]
        c    == mlfi_cleanup(heap, priv)
    IN  /\ running
        /\ IF priv = NULL
           \* priv->reject reads through a null pointer: undefined behaviour.
           \* The process crashes, or the read yields some value.
           THEN /\ fault' = NoteFault("null_deref")
                /\ \E survives \in BOOLEAN, garbage \in {0, 1} :
                     /\ running' = survives
                     /\ ret' = IF ~survives THEN "crash"
                               ELSE IF garbage # 0 THEN SMFIS_REJECT ELSE SMFIS_CONTINUE
                     /\ reply' = IF survives /\ garbage # 0 THEN RejectReply ELSE NoReply
                /\ UNCHANGED <<heap, ctx_priv>>
           ELSE /\ reply' = IF heap[priv].reject # 0 THEN RejectReply ELSE NoReply
                /\ ret' = IF heap[priv].reject # 0 THEN SMFIS_REJECT ELSE SMFIS_CONTINUE
                /\ heap' = c.heap
                /\ ctx_priv' = [ctx_priv EXCEPT ![ctx] = c.priv]
                /\ fault' = IF c.fault = "none" THEN fault ELSE NoteFault(c.fault)
                /\ UNCHANGED running
        /\ phase' = [phase EXCEPT ![ctx] = "idle"]
        /\ call' = [op |-> "eom", ctx |-> ctx, hadpriv |-> priv # NULL,
                    m |-> seen[ctx], priv |-> priv,
                    env_from |-> IF priv = NULL THEN NULL ELSE heap[priv].env_from]
        /\ seen' = [seen EXCEPT ![ctx] = NoSeen]
        /\ UNCHANGED <<mta_caps, pf, tempfailed, offered, fn_in, fn_out>>

mlfi_abort(ctx) ==
    LET priv == ctx_priv[ctx]
        c    == mlfi_cleanup(heap, priv)
    IN  /\ running
        /\ heap' = c.heap
        /\ ctx_priv' = [ctx_priv EXCEPT ![ctx] = c.priv]
        /\ fault' = IF c.fault = "none" THEN fault ELSE NoteFault(c.fault)
        /\ ret' = SMFIS_CONTINUE
        /\ reply' = NoReply
        /\ phase' = [phase EXCEPT ![ctx] = IF @ = "init" THEN "init" ELSE "idle"]
        /\ call' = [op |-> "abort", ctx |-> ctx, hadpriv |-> priv # NULL,
                    m |-> seen[ctx], priv |-> priv,
                    env_from |-> IF priv = NULL THEN NULL ELSE heap[priv].env_from,
                    after_destroy |-> call.op = "abort" /\ call.ctx = ctx /\ call.hadpriv]
        /\ seen' = [seen EXCEPT ![ctx] = NoSeen]
        /\ UNCHANGED <<mta_caps, running, pf, tempfailed, offered, fn_in, fn_out>>

\* The connection ends: the filter registers no close callback (the
\* descriptor's "connection cleanup" entry is NULL), so no code of the filter
\* runs; the runtime discards the context, and the next connection is
\* negotiated anew.
CloseConnection(ctx) ==
    /\ running
    /\ phase' = [phase EXCEPT ![ctx] = "init"]
    /\ ctx_priv' = [ctx_priv EXCEPT ![ctx] = NULL]
    /\ seen' = [seen EXCEPT ![ctx] = NoSeen]
    /\ tempfailed' = [tempfailed EXCEPT ![ctx] = FALSE]
    /\ offered' = [offered EXCEPT ![ctx] = {}]
    /\ ret' = "none"
    /\ reply' = NoReply
    /\ call' = [op |-> "close", ctx |-> ctx]
    /\ UNCHANGED <<mta_caps, heap, running, fault, pf, fn_in, fn_out>>

(***************************************************************************)
(* The milter runtime: the order in which it delivers the events of one    *)
(* connection.  Negotiation first; per message the envelope sender, then   *)
(* headers, then end-of-message or abort.  An abort may also arrive with   *)
(* no message in flight (the MTA resets the transaction).                  *)
(***************************************************************************)
Ordered(ctx, op) ==
    CASE op = "negotiate" -> phase[ctx] = "init"
      [] op = "envfrom"   -> phase[ctx] = "idle"
      [] op = "header"    -> phase[ctx] = "msg"
      [] op = "eom"       -> phase[ctx] = "msg"
      [] op = "abort"     -> phase[ctx] \in {"idle", "msg"}
      [] op = "close"     -> phase[ctx] = "idle"

Init ==
    /\ mta_caps = {}
    /\ heap = [a \in Addr |-> FreeBlock]
    /\ ctx_priv = [c \in Conns |-> NULL]
    /\ phase = [c \in Conns |-> "init"]
    /\ running = TRUE
    /\ fault = "none"
    /\ ret = "none"
    /\ reply = NoReply
    /\ pf = [pf0 |-> {}, pf1 |-> {}, pf2 |-> {}, pf3 |-> {}]
    /\ call = [op |-> "none", ctx |-> "none"]
    /\ seen = [c \in Conns |-> NoSeen]
    /\ tempfailed = [c \in Conns |-> FALSE]
    /\ offered = [c \in Conns |-> {}]
    /\ fn_in = [op |-> "none"]
    /\ fn_out = [op |-> "none"]

NegotiateStep ==
    \E ctx \in Conn1, f0 \in OfferedActions, f1 \in OfferedSteps :
        Ordered(ctx, "negotiate") /\ mlfi_negotiate(ctx, f0, f1, {}, {})

EnvfromStep ==
    \E ctx \in Conn1, envfrom \in FieldValues, auth_type \in AuthTypes,
       malloc_ok \in BOOLEAN, strndup_ok \in BOOLEAN :
        Ordered(ctx, "envfrom")
            /\ mlfi_envfrom(ctx, envfrom, auth_type, malloc_ok, strndup_ok)

HeaderStep ==
    \E ctx \in Conn1, headerf \in HeaderNames, headerv \in FieldValues :
        Ordered(ctx, "header") /\ mlfi_header(ctx, headerf, headerv)

EomStep == \E ctx \in Conn1 : Ordered(ctx, "eom") /\ mlfi_eom(ctx)

AbortStep == \E ctx \in Conn1 : Ordered(ctx, "abort") /\ mlfi_abort(ctx)

CloseStep == \E ctx \in Conn1 : Ordered(ctx, "close") /\ CloseConnection(ctx)

Next ==
    \/ NegotiateStep
    \/ EnvfromStep
    \/ HeaderStep
    \/ EomStep
    \/ AbortStep
    \/ CloseStep

Spec == Init /\ [][Next]_vars

(***************************************************************************)
(* The same runtime, which also delivers header and end-of-message events  *)
(* when no message is in flight: after an envelope-sender event that       *)
(* returned TEMPFAIL, or after the terminal event of the message.  Nothing *)
(* in the filter itself enforces the protocol's ordering.                  *)
(***************************************************************************)
HeaderStray ==
    \E ctx \in Conn1, headerf \in HeaderNames, headerv \in FieldValues :
        phase[ctx] \in {"idle", "msg"} /\ mlfi_header(ctx, headerf, headerv)

EomStray == \E ctx \in Conn1 : phase[ctx] \in {"idle", "msg"} /\ mlfi_eom(ctx)

NextStray ==
    \/ NegotiateStep
    \/ EnvfromStep
    \/ HeaderStray
    \/ EomStray
    \/ AbortStep
    \/ CloseStep

SpecStray == Init /\ [][NextStray]_vars

(***************************************************************************)
(* Several connections: the runtime runs the events of each connection in  *)
(* protocol order and interleaves the connections freely.  The MTAs may    *)
(* offer different step masks.  Allocations succeed.                       *)
(***************************************************************************)
ConnSteps == {{}, {SMFIP_NR_HDR}}

ConnValues == { <<"a">>, <<"b">> }

ConnNames == { <<"f","r","o","m">>, <<"S","e","n","d","e","r">> }

ConnsNegotiate ==
    \E ctx \in Conns, f1 \in ConnSteps :
        Ordered(ctx, "negotiate") /\ mlfi_negotiate(ctx, {}, f1, {}, {})

ConnsEnvfrom ==
    \E ctx \in Conns, envfrom \in ConnValues, auth_type \in AuthTypes :
        Ordered(ctx, "envfrom") /\ mlfi_envfrom(ctx, envfrom, auth_type, TRUE, TRUE)

ConnsHeader ==
    \E ctx \in Conns, headerf \in ConnNames, headerv \in ConnValues :
        Ordered(ctx, "header") /\ mlfi_header(ctx, headerf, headerv)

ConnsEom == \E ctx \in Conns : Ordered(ctx, "eom") /\ mlfi_eom(ctx)

ConnsAbort == \E ctx \in Conns : Ordered(ctx, "abort") /\ mlfi_abort(ctx)

ConnsClose == \E ctx \in Conns : Ordered(ctx, "close") /\ CloseConnection(ctx)

NextConns ==
    \/ ConnsNegotiate
    \/ ConnsEnvfrom
    \/ ConnsHeader
    \/ ConnsEom
    \/ ConnsAbort
    \/ ConnsClose

SpecConns == Init /\ [][NextConns]_vars

(***************************************************************************)
(* The pure functions on their own: parse_address on every string up to    *)
(* MaxLen, and the comparison of mlfi_header on every pair of a header     *)
(* value and an envelope value, the latter stored as mlfi_envfrom stores   *)
(* it.                                                                     *)
(***************************************************************************)
InitParse ==
    /\ mta_caps = {}
    /\ heap = [a \in Addr |-> FreeBlock]
    /\ ctx_priv = [c \in Conns |-> NULL]
    /\ phase = [c \in Conns |-> "init"]
    /\ running = TRUE
    /\ fault = "none"
    /\ ret = "none"
    /\ reply = NoReply
    /\ pf = [pf0 |-> {}, pf1 |-> {}, pf2 |-> {}, pf3 |-> {}]
    /\ call = [op |-> "none", ctx |-> "none"]
    /\ seen = [c \in Conns |-> NoSeen]
    /\ tempfailed = [c \in Conns |-> FALSE]
    /\ offered = [c \in Conns |-> {}]
    /\ fn_in \in {[op |-> "input", a |-> s, b |-> t] : s \in Strings, t \in Strings}
    /\ fn_out = [op |-> "none"]

ApplyParse ==
    /\ fn_out.op = "none"
    /\ fn_out' = [op |-> "parse", off |-> parse_address(fn_in.a).off,
                  len |-> parse_address(fn_in.a).len]
    /\ UNCHANGED <<mta_caps, heap, ctx_priv, phase, running, fault, ret, reply,
                   pf, call, seen, tempfailed, offered, fn_in>>

\* fn_in.b is the envelope sender of an authenticated message, fn_in.a the
\* value of its From header
ApplyCompare ==
    LET r == mlfi_envfrom_result(heap, NULL, fn_in.b,
                                 [null |-> FALSE, str |-> "PLAIN"], TRUE, TRUE)
        p == r.heap[r.priv]
    IN  /\ fn_out.op = "none"
        /\ fn_out' = [op |-> "compare",
                      reject |-> header_reject(p, r.heap[p.env_from].chars,
                                               FromLiteral, fn_in.a)]
        /\ UNCHANGED <<mta_caps, heap, ctx_priv, phase, running, fault, ret, reply,
                       pf, call, seen, tempfailed, offered, fn_in>>

NextParse == ApplyParse \/ ApplyCompare

SpecParse == InitParse /\ [][NextParse]_vars

\* the token parse_address denotes: len bytes from the returned pointer
Token(s) == SubSeq(s, parse_address(s).off + 1,
                   parse_address(s).off + parse_address(s).len)

(***************************************************************************)
(* Properties.                                                             *)
(***************************************************************************)

\* C1: a message of an unauthenticated session is never rejected: whatever
\* headers arrive, reject stays 0, and end-of-message returns CONTINUE and
\* sets no reply.
C1_UnauthNeverRejected ==
    /\ \A c \in Conns :
         (seen[c].active /\ ~seen[c].auth) =>
            (ctx_priv[c] # NULL /\ heap[ctx_priv[c]].reject = 0)
    /\ (call.op = "eom" /\ call.hadpriv /\ ~call.m.auth) =>
            (ret = SMFIS_CONTINUE /\ reply = NoReply)

\* end-of-message of an unauthenticated message that had a From header whose
\* address differs from the envelope address
C1_Witness ==
    /\ call.op = "eom" /\ call.hadpriv
    /\ ~call.m.auth /\ call.m.mismatch
    /\ ret = SMFIS_CONTINUE

\* C2: an authenticated message with a From header whose extracted address
\* is not equal to the envelope address: end-of-message sets the fixed
\* reply, destroys the session and returns REJECT.
C2_MismatchRejected ==
    (call.op = "eom" /\ call.hadpriv /\ call.m.auth /\ call.m.mismatch) =>
        /\ reply = RejectReply
        /\ ret = SMFIS_REJECT
        /\ ctx_priv[call.ctx] = NULL
        /\ heap[call.priv] = FreeBlock
        /\ heap[call.env_from] = FreeBlock

C2_Witness ==
    /\ call.op = "eom" /\ call.hadpriv
    /\ call.m.auth /\ call.m.mismatch
    /\ ret = SMFIS_REJECT

\* C3: reject is sticky: a header event never takes priv->reject from
\* nonzero back to 0, so an authenticated message with both a matching and
\* a mismatching From header is rejected at end-of-message in either order.
C3_StickyStep ==
    \A c \in Conns :
        (call'.op = "header" /\ ctx_priv[c] # NULL /\ heap[ctx_priv[c]].reject # 0) =>
            (ctx_priv'[c] = ctx_priv[c] /\ heap'[ctx_priv[c]].reject # 0)

C3_MixedRejected ==
    (call.op = "eom" /\ call.hadpriv /\ call.m.auth
        /\ call.m.mismatch /\ call.m.match # "none") =>
        (ret = SMFIS_REJECT /\ reply = RejectReply)

\* C3: no header step resets reject, and an authenticated message with a
\* matching and a mismatching From header is rejected.
C3_StickyReject == [][C3_StickyStep]_vars /\ []C3_MixedRejected

\* a matching From header arrives after a mismatching one, and reject stays
C3_Witness ==
    /\ call.op = "header" /\ call.hadpriv
    /\ call.m.auth /\ call.m.mismatch
    /\ call.isfrom /\ call.eq
    /\ heap[ctx_priv[call.ctx]].reject # 0

\* C4: an authenticated message all of whose From headers (possibly none)
\* carry an address equal to the envelope address: end-of-message returns
\* CONTINUE, sets no reply and destroys the session.
C4_MatchAccepted ==
    (call.op = "eom" /\ call.hadpriv /\ call.m.auth /\ ~call.m.mismatch) =>
        /\ ret = SMFIS_CONTINUE
        /\ reply = NoReply
        /\ ctx_priv[call.ctx] = NULL
        /\ heap[call.priv] = FreeBlock
        /\ heap[call.env_from] = FreeBlock

\* accepted with a From header whose value is not the bare address
C4_Witness ==
    /\ call.op = "eom" /\ call.hadpriv
    /\ call.m.auth /\ ~call.m.mismatch /\ call.m.match = "wrapped"
    /\ ret = SMFIS_CONTINUE

\* C5: whenever the input contains a '<' before a '>', parse_address
\* returns the interior of such a pair, whatever surrounds it.
C5_InteriorOfAPair ==
    LET s == fn_in.a
    IN  (fn_out.op = "parse"
            /\ \E i, j \in 1..Len(s) : i < j /\ s[i] = "<" /\ s[j] = ">") =>
        \E i, j \in 1..Len(s) :
            /\ i < j /\ s[i] = "<" /\ s[j] = ">"
            /\ fn_out.off = i
            /\ fn_out.len = j - i - 1

\* C6: the comparison of mlfi_header finds a From address equal to the
\* stored envelope address exactly when the two tokens have the same length
\* and the same bytes up to ASCII case.
C6_CompareIsTokenEquality ==
    fn_out.op = "compare" =>
        ((fn_out.reject = 0) <=> EqualTokens(Token(fn_in.a), Token(fn_in.b)))

\* tokens that differ in letter case only are found equal
C6_Witness ==
    /\ fn_out.op = "compare"
    /\ Token(fn_in.a) # Token(fn_in.b)
    /\ Len(Token(fn_in.a)) > 0
    /\ fn_out.reject = 0

\* C7: abort destroys an existing session, sets no reply and returns
\* CONTINUE, whatever reject is; an abort with no session changes nothing
\* in the heap or the slot.
C7_AbortDestroys ==
    (call.op = "abort" /\ call.hadpriv) =>
        /\ ctx_priv[call.ctx] = NULL
        /\ heap[call.priv] = FreeBlock
        /\ heap[call.env_from] = FreeBlock
        /\ reply = NoReply
        /\ ret = SMFIS_CONTINUE
        /\ fault = "none"

C7_AbortAgainStep ==
    (call'.op = "abort" /\ ctx_priv[call'.ctx] = NULL) =>
        /\ heap' = heap
        /\ ctx_priv' = ctx_priv
        /\ fault' = fault
        /\ reply' = NoReply
        /\ ret' = SMFIS_CONTINUE

\* C7: abort destroys the session without a reply, and an abort with no
\* session is a no-op.
C7_AbortCleanup == []C7_AbortDestroys /\ [][C7_AbortAgainStep]_vars

\* a second abort right after the abort that destroyed the session
C7_Witness ==
    /\ call.op = "abort" /\ ~call.hadpriv /\ call.after_destroy
    /\ ctx_priv[call.ctx] = NULL
    /\ fault = "none"

\* C8: negotiation returns CONTINUE and requests exactly NOCONNECT, NOHELO,
\* NORCPT, plus NR_HDR if and only if it was offered; no action flags.
C8_Negotiation ==
    call.op = "negotiate" =>
        /\ ret = SMFIS_CONTINUE
        /\ {SMFIP_NOCONNECT, SMFIP_NOHELO, SMFIP_NORCPT} \subseteq pf.pf1
        /\ (SMFIP_NR_HDR \in pf.pf1) <=> (SMFIP_NR_HDR \in call.f1)
        /\ pf.pf1 \subseteq {SMFIP_NOCONNECT, SMFIP_NOHELO, SMFIP_NORCPT, SMFIP_NR_HDR}
        /\ pf.pf0 = {} /\ pf.pf2 = {} /\ pf.pf3 = {}

\* offered: another step flag and an action flag, but not NR_HDR
C8_Witness ==
    /\ call.op = "negotiate"
    /\ SMFIP_SKIP \in call.f1 /\ SMFIP_NR_HDR \notin call.f1
    /\ call.f0 # {}
    /\ SMFIP_NR_HDR \notin pf.pf1

\* C9: an envelope-sender event in which an allocation fails returns
\* TEMPFAIL and attaches no session; one whose allocations succeed starts a
\* session, and a message after a failure gets its normal verdict.
C9_AllocFailure ==
    /\ (call.op = "envfrom" /\ call.allocfail) =>
          /\ ret = SMFIS_TEMPFAIL
          /\ ctx_priv[call.ctx] = NULL
          /\ running /\ fault = "none"
    /\ (call.op = "envfrom" /\ ~call.allocfail) =>
          (ret = SMFIS_CONTINUE /\ ctx_priv[call.ctx] # NULL)
    /\ (call.op = "eom" /\ call.hadpriv /\ tempfailed[call.ctx]) =>
          /\ ret = IF call.m.auth /\ call.m.mismatch THEN SMFIS_REJECT ELSE SMFIS_CONTINUE
          /\ running /\ fault = "none"

\* a message rejected on its own merits after an earlier TEMPFAIL
C9_Witness ==
    /\ call.op = "eom" /\ call.hadpriv /\ tempfailed[call.ctx]
    /\ ret = SMFIS_REJECT

\* C10: the header and end-of-message handlers called with no session
\* attached are silent no-ops: no fault, no reply, a continue verdict.
C10_NoSessionNoOp ==
    (call.op \in {"header", "eom"} /\ ~call.hadpriv) =>
        /\ fault = "none"
        /\ running
        /\ reply = NoReply
        /\ ret \in {SMFIS_CONTINUE, SMFIS_NOREPLY}


C15_NoReplyPerConnection ==
    (call.op = "header" /\ call.hadpriv) =>
        ((ret = SMFIS_NOREPLY) <=> (SMFIP_NR_HDR \in offered[call.ctx]))


\* C16: mta_caps is written exactly once, by the negotiation handler, and
\* is read-only thereafter: no handler other than mlfi_negotiate changes
\* it, and once the first handler call (the negotiation that wrote it) has
\* been made, no step changes it any more.
C16_WriteStep ==
    /\ (call'.op # "negotiate") => (mta_caps' = mta_caps)
    /\ (call.op # "none") => (mta_caps' = mta_caps)

C16_WrittenOnce == [][C16_WriteStep]_vars


\* the verdict the events of a message call for
Verdict(m) == IF m.auth /\ m.mismatch THEN SMFIS_REJECT ELSE SMFIS_CONTINUE

\* C12: under the protocol ordering a session is attached exactly while a
\* message is in flight; after end-of-message or abort the slot is empty
\* and the session record and its address copy are free, with no double
\* free and no access to a freed session.
C12_Lifecycle ==
    /\ running /\ fault = "none"
    /\ \A c \in Conns : (phase[c] = "msg") <=> (ctx_priv[c] # NULL)
    /\ \A c \in Conns :
         ctx_priv[c] # NULL =>
            /\ heap[ctx_priv[c]].kind = "priv"
            /\ heap[ctx_priv[c]].env_from # NULL
            /\ heap[heap[ctx_priv[c]].env_from].kind = "str"
    /\ (call.op \in {"eom", "abort"} /\ call.hadpriv) =>
            /\ ctx_priv[call.ctx] = NULL
            /\ heap[call.priv] = FreeBlock
            /\ heap[call.env_from] = FreeBlock

\* a new session attached right after end-of-message freed the previous one
C12_Witness ==
    /\ call.op = "envfrom" /\ ret = SMFIS_CONTINUE
    /\ call.after.op = "eom"
    /\ ctx_priv[call.ctx] # NULL
    /\ fault = "none"

\* C13: a header event leaves is_auth, the stored envelope address and its
\* length as they are; the only field it may change is reject, and only
\* from 0 to 1.
C13_HeaderStep ==
    call'.op = "header" =>
        \A c \in Conns :
            /\ ctx_priv'[c] = ctx_priv[c]
            /\ ctx_priv[c] # NULL =>
                LET p == heap[ctx_priv[c]]
                    q == heap'[ctx_priv[c]]
                IN  /\ q.kind = p.kind
                    /\ q.is_auth = p.is_auth
                    /\ q.env_from = p.env_from
                    /\ q.env_from_len = p.env_from_len
                    /\ heap'[p.env_from] = heap[p.env_from]
                    /\ (q.reject # p.reject) => (p.reject = 0 /\ q.reject = 1)

C13_HeaderFrame == [][C13_HeaderStep]_vars

\* the header event that set reject: no mismatch before it, reject after it
C13_Witness ==
    /\ call.op = "header" /\ call.hadpriv
    /\ call.m.auth /\ ~call.m.mismatch
    /\ heap[ctx_priv[call.ctx]].reject = 1

\* C14: a header event evaluates the address only when the field name is
\* "from" up to ASCII case; with any other name the session is unchanged,
\* and with such a name a differing address of a checked session sets
\* reject.
C14_NameStep ==
    (call'.op = "header" /\ call'.hadpriv) =>
        /\ ~call'.isfrom => (heap' = heap /\ ctx_priv' = ctx_priv)
        /\ (call'.isfrom /\ ~call'.eq
              /\ heap[ctx_priv[call'.ctx]].is_auth # 0
              /\ heap[ctx_priv[call'.ctx]].reject = 0) =>
                 heap'[ctx_priv[call'.ctx]].reject = 1

C14_OnlyFromEvaluated == [][C14_NameStep]_vars

\* a header of another name with a differing address, on a checked session
C14_Witness ==
    /\ call.op = "header" /\ call.hadpriv
    /\ call.m.auth /\ ~call.m.mismatch
    /\ ~call.isfrom /\ ~call.eq
    /\ heap[ctx_priv[call.ctx]].reject = 0

\* C17: the outcome of a message is determined by its authentication
\* indicator, envelope sender and headers alone, whatever mask was
\* negotiated: reject, the end-of-message verdict and the reply are the
\* ones those inputs call for; only the header return value follows the
\* mask.
C17_OutcomeFromInputs ==
    /\ \A c \in Conns :
         ctx_priv[c] # NULL =>
            heap[ctx_priv[c]].reject = IF seen[c].auth /\ seen[c].mismatch THEN 1 ELSE 0
    /\ (call.op = "eom" /\ call.hadpriv) =>
         /\ ret = Verdict(call.m)
         /\ reply = IF Verdict(call.m) = SMFIS_REJECT THEN RejectReply ELSE NoReply
    /\ (call.op = "header" /\ call.hadpriv) =>
         ret \in {SMFIS_NOREPLY, SMFIS_CONTINUE}

\* a rejection on a connection that negotiated NR_HDR
C17_Witness ==
    /\ call.op = "eom" /\ call.hadpriv
    /\ SMFIP_NR_HDR \in mta_caps
    /\ ret = SMFIS_REJECT /\ reply = RejectReply

\* C18: every successful envelope-sender event starts a fresh session:
\* reject = 0, the address extracted from its own envelope sender, its own
\* authentication flag; and the verdict of a message is the one its own
\* events call for, whatever happened to earlier messages.
C18_FreshSession ==
    /\ \A c \in Conns :
         ctx_priv[c] # NULL =>
            /\ heap[heap[ctx_priv[c]].env_from].chars = seen[c].env
            /\ heap[ctx_priv[c]].env_from_len = Len(seen[c].env)
            /\ heap[ctx_priv[c]].is_auth = IF seen[c].auth THEN 1 ELSE 0
    /\ (call.op = "envfrom" /\ ret = SMFIS_CONTINUE) =>
            /\ ctx_priv[call.ctx] # NULL
            /\ heap[ctx_priv[call.ctx]].reject = 0
    /\ (call.op = "eom" /\ call.hadpriv) => ret = Verdict(call.m)

\* a fresh session right after a message that was rejected
C18_Witness ==
    /\ call.op = "envfrom" /\ ret = SMFIS_CONTINUE
    /\ call.after.op = "eom" /\ call.after.ret = SMFIS_REJECT
    /\ heap[ctx_priv[call.ctx]].reject = 0

\* C19: no allocation is orphaned: every live struct mlfiPriv is the one
\* attached to some context, and every live string is the env_from of an
\* attached struct.
C19_NoOrphan ==
    \A a \in Addr :
        /\ heap[a].kind = "priv" => \E c \in Conns : ctx_priv[c] = a
        /\ heap[a].kind = "str" =>
             \E c \in Conns : ctx_priv[c] # NULL /\ heap[ctx_priv[c]].env_from = a

=============================================================================
